---------------------------- MODULE Spec2Model ----------------------------
(***************************************************************************)
(* A model of the Toon codec of tooner (src/src/tooner/server.py): the     *)
(* shape classifier is_uniform_array, the encoder json_to_toon, the        *)
(* decoder toon_to_json and the tool parse_from_toon.                      *)
(*                                                                         *)
(* Texts are sequences of one-character strings.  A JSON value is a record *)
(* [t, n, d, s, keys, items]: t is the Python type ("null", "bool", "int", *)
(* "float", "str", "list", "dict"); n is the integer (int), 0/1 (bool) or  *)
(* the decimal mantissa (float); d the number of decimals of a float       *)
(* (value n / 10^d, n not a multiple of 10 unless d = 0); s the characters *)
(* of a str; keys the keys of a dict in insertion order; items the         *)
(* elements of a list or the values of a dict, in order.                   *)
(***************************************************************************)
EXTENDS Integers, Sequences, FiniteSets, TLC

(***************************************************************************)
(* Bounds of the model.                                                    *)
(***************************************************************************)
\* longest string held by a cell of a one-cell table
MaxStrLen == 2
\* most rows of a uniform array
MaxRows == 2
\* longest body (the text after the header line) of a raw Toon text
MaxBodyLen == 3
\* longest raw text handed to the decoder's JSON branch
MaxJsonLen == 4
\* most min_items a caller passes
MaxMinItems == 4
\* the apostrophes of the longest string held by a nested value
Apostrophes == 24
\* most rows of a table held by a prompt
MaxBlockRows == 4

(***************************************************************************)
(* Texts.                                                                  *)
(***************************************************************************)
\* str.__contains__ for one character
Contains(s, c) == \E i \in 1..Len(s) : s[i] = c

\* str.index for one character that is present
IndexOf(s, c) == CHOOSE i \in 1..Len(s) : s[i] = c /\ \A j \in 1..(i - 1) : s[j] # c

\* the whitespace str.strip() removes, among the characters the model can hold
IsSpace(c) == c \in {" ", "\n", "\t", "\r"}

RECURSIVE LStrip(_)
LStrip(s) == IF s # <<>> /\ IsSpace(Head(s)) THEN LStrip(Tail(s)) ELSE s

RECURSIVE RStrip(_)
RStrip(s) ==
    IF s # <<>> /\ IsSpace(s[Len(s)]) THEN RStrip(SubSeq(s, 1, Len(s) - 1)) ELSE s

\* str.strip()
Strip(s) == RStrip(LStrip(s))

\* sep.join(parts), sep a text
RECURSIVE Join(_, _)
Join(parts, sep) ==
    IF parts = <<>> THEN <<>>
    ELSE IF Len(parts) = 1 THEN parts[1]
    ELSE parts[1] \o sep \o Join(Tail(parts), sep)

\* s.split(c), c one character: always at least one part
RECURSIVE Split(_, _)
Split(s, c) ==
    IF ~Contains(s, c) THEN <<s>>
    ELSE LET i == IndexOf(s, c)
         IN  <<SubSeq(s, 1, i - 1)>> \o Split(SubSeq(s, i + 1, Len(s)), c)

Digits == <<"0", "1", "2", "3", "4", "5", "6", "7", "8", "9">>

IsDigit(c) == \E i \in 1..10 : Digits[i] = c

DigitVal(c) == (CHOOSE i \in 1..10 : Digits[i] = c) - 1

\* the decimal digits of n >= 0
RECURSIVE NatToStr(_)
NatToStr(n) == IF n < 10 THEN <<Digits[n + 1]>> ELSE NatToStr(n \div 10) \o <<Digits[(n % 10) + 1]>>

\* str(n) of an int
IntToStr(n) == IF n < 0 THEN <<"-">> \o NatToStr(0 - n) ELSE NatToStr(n)

\* the value of a non-empty run of digits
RECURSIVE DigitsVal(_)
DigitsVal(s) ==
    IF s = <<>> THEN 0 ELSE DigitsVal(SubSeq(s, 1, Len(s) - 1)) * 10 + DigitVal(s[Len(s)])

AllDigits(s) == \A i \in 1..Len(s) : IsDigit(s[i])

RECURSIVE Pow10(_)
Pow10(k) == IF k = 0 THEN 1 ELSE 10 * Pow10(k - 1)

\* k copies of the character c
RECURSIVE Rep(_, _)
Rep(c, k) == IF k <= 0 THEN <<>> ELSE <<c>> \o Rep(c, k - 1)

\* the texts over an alphabet of exactly k characters, and of at most k
RECURSIVE TextsOfLen(_, _)
TextsOfLen(alphabet, k) ==
    IF k = 0 THEN {<<>>}
    ELSE {<<c>> \o w : c \in alphabet, w \in TextsOfLen(alphabet, k - 1)}

TextsUpTo(alphabet, k) == UNION {TextsOfLen(alphabet, j) : j \in 0..k}

(***************************************************************************)
(* JSON values.                                                            *)
(***************************************************************************)
MkVal(t, n, d, s, keys, items) ==
    [t |-> t, n |-> n, d |-> d, s |-> s, keys |-> keys, items |-> items]

VNull == MkVal("null", 0, 0, <<>>, <<>>, <<>>)
VBool(b) == MkVal("bool", IF b THEN 1 ELSE 0, 0, <<>>, <<>>, <<>>)
VInt(n) == MkVal("int", n, 0, <<>>, <<>>, <<>>)
VStr(s) == MkVal("str", 0, 0, s, <<>>, <<>>)
VList(items) == MkVal("list", 0, 0, <<>>, <<>>, items)
VDict(keys, items) == MkVal("dict", 0, 0, <<>>, keys, items)

\* a float n / 10^d in lowest decimal form
RECURSIVE VFloat(_, _)
VFloat(n, d) ==
    IF d > 0 /\ n % 10 = 0 THEN VFloat(n \div 10, d - 1)
    ELSE MkVal("float", n, d, <<>>, <<>>, <<>>)

(***************************************************************************)
(* Python's text forms: str(v), repr(v) and json.dumps(v, indent=2).       *)
(* The model's floats have few decimals, so repr never takes its exponent  *)
(* form.                                                                   *)
(***************************************************************************)
\* the d-digit fraction of a float, zero-padded on the left
FracDigits(m, d) == LET f == NatToStr(m % Pow10(d)) IN Rep("0", d - Len(f)) \o f

\* float.__repr__ of n / 10^d
FloatToStr(n, d) ==
    LET m == IF n < 0 THEN 0 - n ELSE n
        sign == IF n < 0 THEN <<"-">> ELSE <<>>
    IN  sign \o NatToStr(m \div Pow10(d)) \o <<".">>
             \o (IF d = 0 THEN <<"0">> ELSE FracDigits(m, d))

\* the escapes repr() applies inside a string literal quoted with quote
RECURSIVE ReprEscape(_, _)
ReprEscape(s, quote) ==
    IF s = <<>> THEN <<>>
    ELSE (CASE Head(s) = "\n" -> <<"\\", "n">>
            [] Head(s) = "\\" -> <<"\\", "\\">>
            [] Head(s) = quote -> <<"\\", quote>>
            [] OTHER -> <<Head(s)>>) \o ReprEscape(Tail(s), quote)

\* repr of a string: in apostrophes, unless it holds one and no double quote
StrRepr(s) ==
    LET quote == IF Contains(s, "'") /\ ~Contains(s, "\"") THEN "\"" ELSE "'"
    IN  <<quote>> \o ReprEscape(s, quote) \o <<quote>>

\* repr(v)
RECURSIVE PyRepr(_)
PyRepr(v) ==
    CASE v.t = "null" -> <<"N", "o", "n", "e">>
      [] v.t = "bool" -> IF v.n = 1 THEN <<"T", "r", "u", "e">> ELSE <<"F", "a", "l", "s", "e">>
      [] v.t = "int" -> IntToStr(v.n)
      [] v.t = "float" -> FloatToStr(v.n, v.d)
      [] v.t = "str" -> StrRepr(v.s)
      [] v.t = "list" ->
            <<"[">> \o Join([i \in 1..Len(v.items) |-> PyRepr(v.items[i])], <<",", " ">>) \o <<"]">>
      [] v.t = "dict" ->
            <<"{">> \o Join([i \in 1..Len(v.items) |->
                              StrRepr(v.keys[i]) \o <<":", " ">> \o PyRepr(v.items[i])],
                            <<",", " ">>) \o <<"}">>

\* str(v): a string is its own text, everything else its repr
PyStr(v) == IF v.t = "str" THEN v.s ELSE PyRepr(v)

\* the escapes json.dumps applies inside a string
RECURSIVE JsonEscape(_)
JsonEscape(s) ==
    IF s = <<>> THEN <<>>
    ELSE (CASE Head(s) = "\n" -> <<"\\", "n">>
            [] Head(s) = "\\" -> <<"\\", "\\">>
            [] Head(s) = "\"" -> <<"\\", "\"">>
            [] OTHER -> <<Head(s)>>) \o JsonEscape(Tail(s))

JsonString(s) == <<"\"">> \o JsonEscape(s) \o <<"\"">>

\* json.dumps(v, indent=2), v nested at the given level
RECURSIVE JsonDumpsAt(_, _)
JsonDumpsAt(v, level) ==
    LET inner == <<"\n">> \o Rep(" ", 2 * (level + 1))
        outer == <<"\n">> \o Rep(" ", 2 * level)
    IN  CASE v.t = "null" -> <<"n", "u", "l", "l">>
          [] v.t = "bool" -> IF v.n = 1 THEN <<"t", "r", "u", "e">> ELSE <<"f", "a", "l", "s", "e">>
          [] v.t = "int" -> IntToStr(v.n)
          [] v.t = "float" -> FloatToStr(v.n, v.d)
          [] v.t = "str" -> JsonString(v.s)
          [] v.t = "list" ->
                IF v.items = <<>> THEN <<"[", "]">>
                ELSE <<"[">> \o inner
                     \o Join([i \in 1..Len(v.items) |-> JsonDumpsAt(v.items[i], level + 1)],
                             <<",">> \o inner)
                     \o outer \o <<"]">>
          [] v.t = "dict" ->
                IF v.items = <<>> THEN <<"{", "}">>
                ELSE <<"{">> \o inner
                     \o Join([i \in 1..Len(v.items) |->
                                JsonString(v.keys[i]) \o <<":", " ">>
                                \o JsonDumpsAt(v.items[i], level + 1)],
                             <<",">> \o inner)
                     \o outer \o <<"}">>

JsonDumps(v) == JsonDumpsAt(v, 0)

\* json.dumps(v): the default separators ", " and ": ", on one line
RECURSIVE JsonDumpsCompact(_)
JsonDumpsCompact(v) ==
    CASE v.t = "list" ->
            <<"[">> \o Join([i \in 1..Len(v.items) |-> JsonDumpsCompact(v.items[i])],
                            <<",", " ">>) \o <<"]">>
      [] v.t = "dict" ->
            <<"{">> \o Join([i \in 1..Len(v.items) |->
                               JsonString(v.keys[i]) \o <<":", " ">>
                               \o JsonDumpsCompact(v.items[i])],
                            <<",", " ">>) \o <<"}">>
      [] OTHER -> JsonDumpsAt(v, 0)

(***************************************************************************)
(* The shape classifier and the encoder.                                   *)
(***************************************************************************)
\* set(item.keys())
KeySet(item) == {item.keys[i] : i \in 1..Len(item.keys)}

\* is_uniform_array comparing the key lists, order and all, instead of the key sets
is_uniform_array_ordered(d) ==
    IF d.t # "list" \/ Len(d.items) = 0 THEN FALSE
    ELSE IF ~(\A i \in 1..Len(d.items) : d.items[i].t = "dict") THEN FALSE
    ELSE \A i \in 1..Len(d.items) : d.items[i].keys = d.items[1].keys

is_uniform_array(d) ==
    IF d.t # "list" \/ Len(d.items) = 0 THEN FALSE
    ELSE IF ~(\A i \in 1..Len(d.items) : d.items[i].t = "dict") THEN FALSE
    ELSE LET first_keys == KeySet(d.items[1])
         IN  \A i \in 1..Len(d.items) : KeySet(d.items[i]) = first_keys

\* item.get(k, '')
DictGet(item, k) ==
    IF \E i \in 1..Len(item.keys) : item.keys[i] = k
    THEN item.items[CHOOSE i \in 1..Len(item.keys) : item.keys[i] = k]
    ELSE VStr(<<>>)

\* FormatValue quoting for a comma alone
FormatValue_comma_only(v) ==
    LET v_str == PyStr(v)
    IN  IF Contains(v_str, ",") THEN <<"\"">> \o v_str \o <<"\"">> ELSE v_str

\* the quoting of one value of a row of a uniform array
FormatValue(v) ==
    LET v_str == PyStr(v)
    IN  IF Contains(v_str, ",") \/ Contains(v_str, " ") \/ Contains(v_str, "\n")
        THEN <<"\"">> \o v_str \o <<"\"">>
        ELSE v_str

\* FormatRow taking the values in the row's own order
FormatRow_own_order(item, keys) ==
    <<" ">> \o Join([j \in 1..Len(item.items) |-> FormatValue(item.items[j])], <<",">>)

\* one row of a uniform array: the values by the keys of the first element
FormatRow(item, keys) ==
    <<" ">> \o Join([j \in 1..Len(keys) |-> FormatValue(DictGet(item, keys[j]))], <<",">>)

\* the header line name[count]{k1,...,km}:
Header(nm, count, keys) ==
    nm \o <<"[">> \o IntToStr(count) \o <<"]", "{">> \o Join(keys, <<",">>) \o <<"}", ":">>

\* the mapping branch that makes a one-row table, with no quoting
DictToToon(d, nm) ==
    Header(nm, 1, d.keys) \o <<"\n", " ">>
        \o Join([j \in 1..Len(d.items) |-> PyStr(d.items[j])], <<",">>)

\* the branch for a uniform array
ArrayToToon(d, nm) ==
    LET keys == d.items[1].keys
        rows == [i \in 1..Len(d.items) |-> FormatRow(d.items[i], keys)]
    IN  Header(nm, Len(d.items), keys) \o <<"\n">> \o Join(rows, <<"\n">>)

RECURSIVE json_to_toon(_, _)

\* json_to_toon passing its own name on when it unwraps a mapping
json_to_toon_keep_name(d, nm) ==
    IF d.t = "dict"
    THEN IF Len(d.keys) = 1 /\ d.items[1].t = "list"
         THEN json_to_toon(d.items[1], nm)
         ELSE DictToToon(d, nm)
    ELSE IF d.t = "list" /\ Len(d.items) > 0
    THEN IF ~is_uniform_array(d) THEN JsonDumps(d) ELSE ArrayToToon(d, nm)
    ELSE JsonDumps(d)

\* json_to_toon making a table of every list of mappings, uniform or not
json_to_toon_no_check(d, nm) ==
    IF d.t = "dict"
    THEN IF Len(d.keys) = 1 /\ d.items[1].t = "list"
         THEN json_to_toon(d.items[1], d.keys[1])
         ELSE DictToToon(d, nm)
    ELSE IF d.t = "list" /\ Len(d.items) > 0
    THEN IF \E i \in 1..Len(d.items) : d.items[i].t # "dict" THEN JsonDumps(d)
         ELSE ArrayToToon(d, nm)
    ELSE JsonDumps(d)

json_to_toon(d, nm) ==
    IF d.t = "dict"
    THEN IF Len(d.keys) = 1 /\ d.items[1].t = "list"
         THEN json_to_toon(d.items[1], d.keys[1])
         ELSE DictToToon(d, nm)
    ELSE IF d.t = "list" /\ Len(d.items) > 0
    THEN IF ~is_uniform_array(d) THEN JsonDumps(d) ELSE ArrayToToon(d, nm)
    ELSE JsonDumps(d)

(***************************************************************************)
(* json.loads.  A parse answers [ok, v, i]: whether it succeeded, the      *)
(* value, and the position after it.  The texts of the model hold no       *)
(* exponent, no \b, \f or \u escape and no NaN or Infinity.                *)
(***************************************************************************)
ParseFail == [ok |-> FALSE, v |-> VNull, i |-> 0]

ParseOk(v, i) == [ok |-> TRUE, v |-> v, i |-> i]

\* the json module's WHITESPACE
IsJsonSpace(c) == c \in {" ", "\n", "\t", "\r"}

\* the position of the first character at or after i that is not whitespace
RECURSIVE SkipWs(_, _)
SkipWs(s, i) == IF i <= Len(s) /\ IsJsonSpace(s[i]) THEN SkipWs(s, i + 1) ELSE i

At(s, i, c) == i <= Len(s) /\ s[i] = c

\* the end of the run of digits that starts at i
RECURSIVE DigitsEnd(_, _)
DigitsEnd(s, i) == IF i <= Len(s) /\ IsDigit(s[i]) THEN DigitsEnd(s, i + 1) ELSE i

\* obj[key] = value on a dict: a key already present keeps its place
DictPut(d, k, v) ==
    IF \E i \in 1..Len(d.keys) : d.keys[i] = k
    THEN VDict(d.keys, [i \in 1..Len(d.keys) |-> IF d.keys[i] = k THEN v ELSE d.items[i]])
    ELSE VDict(Append(d.keys, k), Append(d.items, v))

\* a string literal whose opening quote is before i: acc holds what was read
RECURSIVE ScanString(_, _, _)
ScanString(s, i, acc) ==
    IF i > Len(s) THEN ParseFail
    ELSE IF s[i] = "\"" THEN ParseOk(VStr(acc), i + 1)
    ELSE IF s[i] \in {"\n", "\t", "\r"} THEN ParseFail
    ELSE IF s[i] = "\\"
    THEN IF i + 1 > Len(s) THEN ParseFail
         ELSE CASE s[i + 1] = "\"" -> ScanString(s, i + 2, Append(acc, "\""))
                [] s[i + 1] = "\\" -> ScanString(s, i + 2, Append(acc, "\\"))
                [] s[i + 1] = "/" -> ScanString(s, i + 2, Append(acc, "/"))
                [] s[i + 1] = "n" -> ScanString(s, i + 2, Append(acc, "\n"))
                [] s[i + 1] = "t" -> ScanString(s, i + 2, Append(acc, "\t"))
                [] s[i + 1] = "r" -> ScanString(s, i + 2, Append(acc, "\r"))
                [] OTHER -> ParseFail
    ELSE ScanString(s, i + 1, Append(acc, s[i]))

\* a number at i: -?(0|[1-9][0-9]*)(\.[0-9]+)?, an int unless it has a fraction
ScanNumber(s, i) ==
    LET neg == At(s, i, "-")
        a == IF neg THEN i + 1 ELSE i
        b == IF At(s, a, "0") THEN a + 1 ELSE DigitsEnd(s, a)
        c == IF At(s, b, ".") THEN DigitsEnd(s, b + 1) ELSE b
        frac == c > b + 1
        whole == DigitsVal(SubSeq(s, a, b - 1))
        mant == DigitsVal(SubSeq(s, a, b - 1) \o SubSeq(s, b + 1, c - 1))
    IN  IF b = a THEN ParseFail
        ELSE IF frac
        THEN ParseOk(VFloat(IF neg THEN 0 - mant ELSE mant, c - b - 1), c)
        ELSE ParseOk(VInt(IF neg THEN 0 - whole ELSE whole), b)

\* whether the characters of word stand at i
StartsAt(s, i, word) == i + Len(word) - 1 <= Len(s) /\ SubSeq(s, i, i + Len(word) - 1) = word

RECURSIVE ScanValue(_, _), ScanArray(_, _, _), ScanObject(_, _, _)

\* scan_once: the value that starts at i
ScanValue(s, i) ==
    IF i > Len(s) THEN ParseFail
    ELSE CASE s[i] = "\"" -> ScanString(s, i + 1, <<>>)
           [] s[i] = "{" ->
                LET j == SkipWs(s, i + 1)
                IN  IF At(s, j, "}") THEN ParseOk(VDict(<<>>, <<>>), j + 1)
                    ELSE ScanObject(s, j, VDict(<<>>, <<>>))
           [] s[i] = "[" ->
                LET j == SkipWs(s, i + 1)
                IN  IF At(s, j, "]") THEN ParseOk(VList(<<>>), j + 1)
                    ELSE ScanArray(s, j, <<>>)
           [] s[i] = "n" ->
                IF StartsAt(s, i, <<"n", "u", "l", "l">>) THEN ParseOk(VNull, i + 4) ELSE ParseFail
           [] s[i] = "t" ->
                IF StartsAt(s, i, <<"t", "r", "u", "e">>) THEN ParseOk(VBool(TRUE), i + 4)
                ELSE ParseFail
           [] s[i] = "f" ->
                IF StartsAt(s, i, <<"f", "a", "l", "s", "e">>) THEN ParseOk(VBool(FALSE), i + 5)
                ELSE ParseFail
           [] OTHER -> ScanNumber(s, i)

\* the elements of an array from i on, acc the elements read
ScanArray(s, i, acc) ==
    LET r == ScanValue(s, i)
        k == SkipWs(s, r.i)
    IN  IF ~r.ok THEN ParseFail
        ELSE IF At(s, k, "]") THEN ParseOk(VList(Append(acc, r.v)), k + 1)
        ELSE IF At(s, k, ",") THEN ScanArray(s, SkipWs(s, k + 1), Append(acc, r.v))
        ELSE ParseFail

\* the members of an object from i on, acc the object read
ScanObject(s, i, acc) ==
    IF ~At(s, i, "\"") THEN ParseFail
    ELSE LET key == ScanString(s, i + 1, <<>>)
             c == SkipWs(s, key.i)
             r == ScanValue(s, SkipWs(s, c + 1))
             k == SkipWs(s, r.i)
         IN  IF ~key.ok \/ ~At(s, c, ":") THEN ParseFail
             ELSE IF ~r.ok THEN ParseFail
             ELSE IF At(s, k, "}") THEN ParseOk(DictPut(acc, key.v.s, r.v), k + 1)
             ELSE IF At(s, k, ",") THEN ScanObject(s, SkipWs(s, k + 1), DictPut(acc, key.v.s, r.v))
             ELSE ParseFail

\* json.loads(s): [ok, v], ok FALSE standing for JSONDecodeError
JsonLoads(s) ==
    LET r == ScanValue(s, SkipWs(s, 1))
    IN  IF r.ok /\ SkipWs(s, r.i) = Len(s) + 1 THEN [ok |-> TRUE, v |-> r.v]
        ELSE [ok |-> FALSE, v |-> VNull]

(***************************************************************************)
(* The decoder.  The values of the model's rows hold no underscore and no  *)
(* exponent; with them int() and float() accept what is accepted here.     *)
(***************************************************************************)
\* s without a leading sign
Unsigned(s) == IF s # <<>> /\ Head(s) \in {"+", "-"} THEN Tail(s) ELSE s

IsNegative(s) == s # <<>> /\ Head(s) = "-"

\* int(s): [ok, v], ok FALSE standing for ValueError
PyInt(s) ==
    LET u == Unsigned(s)
    IN  IF u # <<>> /\ AllDigits(u)
        THEN [ok |-> TRUE, v |-> VInt(IF IsNegative(s) THEN 0 - DigitsVal(u) ELSE DigitsVal(u))]
        ELSE [ok |-> FALSE, v |-> VNull]

\* float(s) of a text that holds a decimal point: [ok, v]
PyFloat(s) ==
    LET u == Unsigned(s)
        p == IndexOf(u, ".")
        whole == SubSeq(u, 1, p - 1)
        frac == SubSeq(u, p + 1, Len(u))
        mant == DigitsVal(whole \o frac)
    IN  IF Contains(u, ".") /\ AllDigits(whole) /\ AllDigits(frac) /\ Len(u) > 1
        THEN [ok |-> TRUE, v |-> VFloat(IF IsNegative(s) THEN 0 - mant ELSE mant, Len(frac))]
        ELSE [ok |-> FALSE, v |-> VNull]

\* Coerce without the float branch
Coerce_int_only(value) ==
    LET r == PyInt(value)
    IN  IF r.ok THEN r.v ELSE VStr(value)

\* the try/except around int() and float(): a value that does not parse stays a string
Coerce(value) ==
    LET r == IF Contains(value, ".") THEN PyFloat(value) ELSE PyInt(value)
    IN  IF r.ok THEN r.v ELSE VStr(value)

\* the loop over the characters of a row: values, current and in_quotes after line[i..]
RECURSIVE SplitFrom(_, _, _, _, _)
SplitFrom(line, i, values, current, in_quotes) ==
    IF i > Len(line)
    THEN IF current # <<>> THEN Append(values, Strip(current)) ELSE values
    ELSE IF line[i] = "\"" THEN SplitFrom(line, i + 1, values, current, ~in_quotes)
    ELSE IF line[i] = "," /\ ~in_quotes
    THEN SplitFrom(line, i + 1, Append(values, Strip(current)), <<>>, in_quotes)
    ELSE SplitFrom(line, i + 1, values, Append(current, line[i]), in_quotes)

\* the values of one stripped row
SplitRow(line) == SplitFrom(line, 1, <<>>, <<>>, FALSE)

\* the fields of a header line that holds both braces
HeaderFields(header) ==
    LET inside == SubSeq(header, IndexOf(header, "{") + 1, IndexOf(header, "}") - 1)
        parts == Split(inside, ",")
    IN  [k \in 1..Len(parts) |-> Strip(parts[k])]

\* the mapping of one accepted row: obj[field] = coerced value, field by field
RECURSIVE RowObject(_, _, _, _)
RowObject(fields, values, k, obj) ==
    IF k > Len(fields) THEN obj
    ELSE RowObject(fields, values, k + 1, DictPut(obj, fields[k], Coerce(values[k])))

\* the loop over the lines after the header: result after lines[k..]
RECURSIVE DecodeRows(_, _, _, _)
DecodeRows(lines, k, fields, acc) ==
    IF k > Len(lines) THEN acc
    ELSE IF Strip(lines[k]) = <<>> THEN DecodeRows(lines, k + 1, fields, acc)
    ELSE LET values == SplitRow(Strip(lines[k]))
         IN  IF Len(values) = Len(fields)
             THEN DecodeRows(lines, k + 1, fields,
                             Append(acc, RowObject(fields, values, 1, VDict(<<>>, <<>>))))
             ELSE DecodeRows(lines, k + 1, fields, acc)

\* {"error": "Invalid Toon format"}
InvalidToon ==
    VDict(<< <<"e", "r", "r", "o", "r">> >>,
          <<VStr(<<"I", "n", "v", "a", "l", "i", "d", " ", "T", "o", "o", "n", " ",
                   "f", "o", "r", "m", "a", "t">>)>>)

Returned(v) == [raised |-> "", v |-> v]

Raised(e) == [raised |-> e, v |-> VNull]

\* JsonFallback without the except clause
JsonFallback_no_except(toon_str) ==
    LET r == JsonLoads(toon_str)
    IN  IF r.ok THEN Returned(r.v) ELSE Raised("JSONDecodeError")

\* the branch for a first line without both braces: json.loads under try/except
JsonFallback(toon_str) ==
    LET r == JsonLoads(toon_str)
    IN  IF r.ok THEN Returned(r.v) ELSE Returned(InvalidToon)

\* toon_to_json looking for the braces in the whole text, not in its first line,
\* where header.index then fails when the first line holds none
toon_to_json_any_line(toon_str) ==
    LET lines == Split(Strip(toon_str), "\n")
        header == lines[1]
    IN  IF Len(lines) = 0 THEN Returned(VDict(<<>>, <<>>))
        ELSE IF ~Contains(toon_str, "{") \/ ~Contains(toon_str, "}") THEN JsonFallback(toon_str)
        ELSE IF ~Contains(header, "{") \/ ~Contains(header, "}") THEN Raised("ValueError")
        ELSE Returned(VList(DecodeRows(lines, 2, HeaderFields(header), <<>>)))

\* toon_to_json(toon_str): what it returns, or the exception it raises
toon_to_json(toon_str) ==
    LET lines == Split(Strip(toon_str), "\n")
        header == lines[1]
    IN  IF Len(lines) = 0 THEN Returned(VDict(<<>>, <<>>))
        ELSE IF ~Contains(header, "{") \/ ~Contains(header, "}") THEN JsonFallback(toon_str)
        ELSE Returned(VList(DecodeRows(lines, 2, HeaderFields(header), <<>>)))

\* parse_from_toon(toon_str): its response
parse_from_toon(toon_str) ==
    LET r == toon_to_json(toon_str)
    IN  IF r.raised = ""
        THEN [json |-> r.v, success |-> TRUE, error |-> ""]
        ELSE [json |-> VNull, success |-> FALSE, error |-> r.raised]

(***************************************************************************)
(* The savings estimator: estimate_tokens, the hook's should_compress      *)
(* (src/hooks/compress_prompt_standalone.py) and the tools compress_to_toon *)
(* and should_use_toon.  A percentage the code rounds to two decimals is   *)
(* held in hundredths, one it rounds to one decimal in tenths.             *)
(***************************************************************************)
\* the name json_to_toon takes when none is given
DefaultName == <<"d", "a", "t", "a">>

\* the min_items should_compress takes when none is given
DefaultMinItems == 3

estimate_tokens(t) == Len(t) \div 4

\* (json_tokens - toon_tokens) / json_tokens * 100 > percent, in the floats of
\* the code: the quotient of two token counts times 100 is above a whole
\* percentage exactly when the fraction is
SavingsAbove(json_tokens, toon_tokens, percent) ==
    json_tokens > 0 /\ 100 * (json_tokens - toon_tokens) > percent * json_tokens

\* round(num / den * scale): to the nearest integer, a half to the even one
RoundRatio(num, den, scale) ==
    LET q == (scale * num) \div den
        r == scale * num - q * den
    IN  IF 2 * r > den THEN q + 1
        ELSE IF 2 * r < den THEN q
        ELSE IF q % 2 = 0 THEN q ELSE q + 1

\* round(((a - b) / a * 100) if a > 0 else 0, 2), in hundredths
SavingsPercent(a, b) == IF a > 0 THEN RoundRatio(a - b, a, 10000) ELSE 0

\* should_compress without the test of min_items
should_compress_no_min(d, min_items) ==
    IF d.t # "list" THEN FALSE
    ELSE IF ~is_uniform_array(d) THEN FALSE
    ELSE SavingsAbove(estimate_tokens(JsonDumpsCompact(d)),
                      estimate_tokens(json_to_toon(d, DefaultName)), 30)

\* should_compress(data, min_items)
should_compress(d, min_items) ==
    IF d.t # "list" THEN FALSE
    ELSE IF Len(d.items) < min_items THEN FALSE
    ELSE IF ~is_uniform_array(d) THEN FALSE
    ELSE SavingsAbove(estimate_tokens(JsonDumpsCompact(d)),
                      estimate_tokens(json_to_toon(d, DefaultName)), 30)

\* compress_to_toon measuring the JSON text of json.dumps(data)
compress_to_toon_compact(d, nm) ==
    LET original_tokens == estimate_tokens(JsonDumpsCompact(d))
        toon_output == json_to_toon(d, nm)
    IN  [toon |-> toon_output,
         original_tokens |-> original_tokens,
         toon_tokens |-> estimate_tokens(toon_output),
         savings_percent |-> SavingsPercent(original_tokens, estimate_tokens(toon_output)),
         is_uniform |-> IF d.t = "list" THEN is_uniform_array(d) ELSE FALSE]

\* the tool compress_to_toon(data, name): its response
compress_to_toon(d, nm) ==
    LET original_tokens == estimate_tokens(JsonDumps(d))
        toon_output == json_to_toon(d, nm)
        toon_tokens == estimate_tokens(toon_output)
    IN  [toon |-> toon_output,
         original_tokens |-> original_tokens,
         toon_tokens |-> toon_tokens,
         savings_percent |-> SavingsPercent(original_tokens, toon_tokens),
         is_uniform |-> IF d.t = "list" THEN is_uniform_array(d) ELSE FALSE]

\* the reasons of should_use_toon, a text as the sequence of its pieces
NotAnArray == <<"Toon works best with arrays of uniform objects. This is not an array.">>

ArrayIsEmpty == <<"Array is empty.">>

InconsistentFields ==
    <<"Array objects have inconsistent fields. Toon requires uniform structure.">>

\* str(round(x, 1)) of the float x of so many tenths
TenthsToStr(tenths) == LET f == VFloat(tenths, 1) IN FloatToStr(f.n, f.d)

UniformReason(size, tenths, should_use) ==
    <<"Uniform array with ">> \o IntToStr(size) \o <<" items. ", "Expected savings: ~">>
    \o TenthsToStr(tenths) \o <<"%. ">>
    \o (IF should_use THEN <<"Recommended for token efficiency.">> ELSE <<"Minimal benefit.">>)

\* the response of should_use_toon that recommends against
Against(reason) ==
    [should_use |-> FALSE, is_uniform |-> FALSE, estimated_savings_percent |-> 0,
     reason |-> reason]

\* should_use_toon with the JSON text it measures against given
ShouldUseOver(d, json_str) ==
    IF d.t # "list" THEN Against(NotAnArray)
    ELSE IF Len(d.items) = 0 THEN Against(ArrayIsEmpty)
    ELSE IF ~is_uniform_array(d) THEN Against(InconsistentFields)
    ELSE LET json_tokens == estimate_tokens(json_str)
             toon_tokens == estimate_tokens(json_to_toon(d, DefaultName))
             should_use == SavingsAbove(json_tokens, toon_tokens, 10)
             tenths == IF json_tokens > 0
                       THEN RoundRatio(json_tokens - toon_tokens, json_tokens, 1000) ELSE 0
         IN  [should_use |-> should_use,
              is_uniform |-> TRUE,
              estimated_savings_percent |-> SavingsPercent(json_tokens, toon_tokens),
              reason |-> UniformReason(Len(d.items), tenths, should_use),
              array_size |-> Len(d.items),
              field_count |-> Len(d.items[1].keys)]

\* should_use_toon measuring the JSON text of json.dumps(data)
should_use_toon_compact(d) == ShouldUseOver(d, JsonDumpsCompact(d))

\* the tool should_use_toon(data): its response
should_use_toon(d) == ShouldUseOver(d, JsonDumps(d))

(***************************************************************************)
(* The prompt hook (src/hooks/compress_prompt_standalone.py):              *)
(* detect_json_in_text, compress_prompt, log_to_file and main, and         *)
(* json_to_toon_official of src/hooks/compress_prompt.py.  A block is      *)
(* [start, end, data] with the offsets of Python: start counts from 0 and  *)
(* end is the offset after the last character.                             *)
(***************************************************************************)
\* the least position from i on where s holds c, Len(s) + 1 when there is none
RECURSIVE Find(_, _, _)
Find(s, c, i) == IF i > Len(s) \/ s[i] = c THEN i ELSE Find(s, c, i + 1)

\* the least position from i on where s holds no white space
RECURSIVE SkipSpace(_, _)
SkipSpace(s, i) == IF i > Len(s) \/ ~IsSpace(s[i]) THEN i ELSE SkipSpace(s, i + 1)

\* the greatest position up to i where s holds no white space, 0 when there is none
RECURSIVE LastNonSpace(_, _)
LastNonSpace(s, i) == IF i < 1 \/ ~IsSpace(s[i]) THEN i ELSE LastNonSpace(s, i - 1)

\* where a match of array_pattern that starts at position i ends, 0 when there is
\* none.  No part of the pattern passes a "]", so a match ends at the first "]"
\* after its first "{", and there is one exactly when the text between them is at
\* least one character, a "}" and white space.
ArrayMatchEnd(s, i) ==
    IF s[i] # "[" THEN 0
    ELSE LET p == SkipSpace(s, i + 1)
         IN  IF p > Len(s) \/ s[p] # "{" THEN 0
             ELSE LET j == Find(s, "]", p + 1)
                      q == LastNonSpace(s, j - 1)
                  IN  IF j <= Len(s) /\ q >= p + 2 /\ s[q] = "}" THEN j ELSE 0

\* where a match of obj_pattern that starts at position i ends, 0 when there is none
ObjectMatchEnd(s, i) ==
    IF s[i] # "{" THEN 0
    ELSE LET j == Find(s, "}", i + 1)
         IN  IF j <= Len(s) /\ j >= i + 2 THEN j ELSE 0

\* the first loop of detect_json_in_text: re.finditer from position i on
RECURSIVE ScanArrays(_, _, _)
ScanArrays(s, i, json_blocks) ==
    IF i > Len(s) THEN json_blocks
    ELSE LET e == ArrayMatchEnd(s, i)
             r == JsonLoads(SubSeq(s, i, e))
         IN  IF e = 0 THEN ScanArrays(s, i + 1, json_blocks)
             ELSE ScanArrays(s, e + 1,
                             IF r.ok
                             THEN Append(json_blocks, [start |-> i - 1, end |-> e, data |-> r.v])
                             ELSE json_blocks)

\* the second loop of detect_json_in_text
RECURSIVE ScanObjects(_, _, _)
ScanObjects(s, i, json_blocks) ==
    IF i > Len(s) THEN json_blocks
    ELSE LET e == ObjectMatchEnd(s, i)
             r == JsonLoads(SubSeq(s, i, e))
         IN  IF e = 0 THEN ScanObjects(s, i + 1, json_blocks)
             ELSE ScanObjects(s, e + 1,
                              IF r.ok /\ r.v.t = "dict" /\ Len(r.v.keys) > 2
                              THEN Append(json_blocks, [start |-> i - 1, end |-> e, data |-> r.v])
                              ELSE json_blocks)

\* detect_json_in_text(text)
detect_json_in_text(s) ==
    LET arrays == ScanArrays(s, 1, <<>>)
    IN  IF arrays # <<>> THEN arrays ELSE ScanObjects(s, 1, <<>>)

BannerHead ==
    <<"\n", "[", "A", "U", "T", "O", "M", "A", "T", "I", "C", "A", "L", "L", "Y", " ", "C",
      "O", "M", "P", "R", "E", "S", "S", "E", "D", " ", "B", "Y", " ", "T", "O", "O", "N",
      "E", "R", " ", "H", "O", "O", "K", "]", "\n", "O", "r", "i", "g", "i", "n", "a", "l",
      ":", " ">>

BannerTo ==
    <<" ", "t", "o", "k", "e", "n", "s", " ", "→", " ", "C", "o", "m", "p", "r", "e", "s",
      "s", "e", "d", ":", " ">>

BannerSaved ==
    <<" ", "t", "o", "k", "e", "n", "s", " ", "(", "S", "a", "v", "e", "d", " ">>

BannerTokens ==
    <<" ", "t", "o", "k", "e", "n", "s", ")", "\n", "\n">>

BannerNote ==
    <<"\n", "\n", "[", "N", "o", "t", "e", ":", " ", "T", "h", "i", "s", " ", "d", "a",
      "t", "a", " ", "w", "a", "s", " ", "a", "u", "t", "o", "m", "a", "t", "i", "c", "a",
      "l", "l", "y", " ", "c", "o", "m", "p", "r", "e", "s", "s", "e", "d", " ", "f", "r",
      "o", "m", " ", "J", "S", "O", "N", " ", "t", "o", " ", "T", "o", "o", "n", " ", "f",
      "o", "r", "m", "a", "t", " ", "t", "o", " ", "s", "a", "v", "e", " ", "t", "o", "k",
      "e", "n", "s", "]", "\n">>

\* compressed_text of compress_prompt for the data of a block
CompressedText(d) ==
    LET toon_output == json_to_toon(d, DefaultName)
        original_tokens == estimate_tokens(JsonDumps(d))
        toon_tokens == estimate_tokens(toon_output)
    IN  BannerHead \o IntToStr(original_tokens) \o BannerTo \o IntToStr(toon_tokens)
            \o BannerSaved \o IntToStr(original_tokens - toon_tokens) \o BannerTokens
            \o toon_output \o BannerNote

\* savings of compress_prompt for the data of a block
BlockSavings(d) ==
    estimate_tokens(JsonDumps(d)) - estimate_tokens(json_to_toon(d, DefaultName))

\* modified_text[:start] + compressed_text + modified_text[end:]
Substitute(modified_text, start, end, compressed_text) ==
    SubSeq(modified_text, 1, start) \o compressed_text
        \o SubSeq(modified_text, end + 1, Len(modified_text))

\* the loop of compress_prompt over reversed(json_blocks), block k next
RECURSIVE CompressBlocks(_, _, _, _, _)
CompressBlocks(json_blocks, k, modified_text, compressed_count, total_savings) ==
    IF k = 0
    THEN [text |-> modified_text,
          was_compressed |-> compressed_count > 0,
          stats |-> [compressed_blocks |-> compressed_count,
                     total_tokens_saved |-> total_savings]]
    ELSE LET b == json_blocks[k]
         IN  IF should_compress(b.data, DefaultMinItems)
             THEN CompressBlocks(json_blocks, k - 1,
                                 Substitute(modified_text, b.start, b.end, CompressedText(b.data)),
                                 compressed_count + 1, total_savings + BlockSavings(b.data))
             ELSE CompressBlocks(json_blocks, k - 1, modified_text, compressed_count,
                                 total_savings)

\* the loop of compress_prompt over json_blocks in the order detected, block k next
RECURSIVE CompressForward(_, _, _, _, _)
CompressForward(json_blocks, k, modified_text, compressed_count, total_savings) ==
    IF k > Len(json_blocks)
    THEN [text |-> modified_text,
          was_compressed |-> compressed_count > 0,
          stats |-> [compressed_blocks |-> compressed_count,
                     total_tokens_saved |-> total_savings]]
    ELSE LET b == json_blocks[k]
         IN  IF should_compress(b.data, DefaultMinItems)
             THEN CompressForward(json_blocks, k + 1,
                                  Substitute(modified_text, b.start, b.end, CompressedText(b.data)),
                                  compressed_count + 1, total_savings + BlockSavings(b.data))
             ELSE CompressForward(json_blocks, k + 1, modified_text, compressed_count,
                                  total_savings)

\* compress_prompt after detect_json_in_text, without reversed()
CompressDetectedForward(json_blocks, prompt_text) ==
    IF json_blocks = <<>>
    THEN [text |-> prompt_text, was_compressed |-> FALSE, stats |-> <<>>]
    ELSE CompressForward(json_blocks, 1, prompt_text, 0, 0)

\* compress_prompt after json_blocks = detect_json_in_text(prompt_text): the early
\* return when nothing was detected, the loop over the blocks otherwise
CompressDetected(json_blocks, prompt_text) ==
    IF json_blocks = <<>>
    THEN [text |-> prompt_text, was_compressed |-> FALSE, stats |-> <<>>]
    ELSE CompressBlocks(json_blocks, Len(json_blocks), prompt_text, 0, 0)

\* compress_prompt without reversed()
compress_prompt_forward(prompt_text, k) ==
    CompressDetectedForward(detect_json_in_text(prompt_text), prompt_text)

\* compress_prompt(prompt_text, min_items): the min_items given is k; the code
\* calls should_compress(data) and so with the default
compress_prompt(prompt_text, k) ==
    CompressDetected(detect_json_in_text(prompt_text), prompt_text)

\* the ways the file system answers the writing of a log entry
Disks == {"ok", "mkdir fails", "open fails", "write fails"}

\* log_to_file without its try and except
log_to_file_no_except(message, answer, entries) ==
    IF answer = "ok" THEN [raised |-> "", log |-> Append(entries, message)]
    ELSE [raised |-> "OSError", log |-> entries]

\* log_to_file(message): the exception that leaves it, if any, and the entries of
\* the log file after it, each without its time stamp
log_to_file(message, answer, entries) ==
    IF answer = "ok" THEN [raised |-> "", log |-> Append(entries, message)]
    ELSE [raised |-> "", log |-> entries]

\* the ways the toon-python library answers: not installed, encode raises, encode returns
ToonPythons == {"missing", "raises", "encodes"}

\* json_to_toon_official(data, name) of compress_prompt.py; encoded is the text the
\* library's encode returns when it returns one
json_to_toon_official(d, nm, library, encoded, answer, entries) ==
    IF library = "missing" THEN [raised |-> "", text |-> JsonDumps(d), log |-> entries]
    ELSE IF library = "encodes" THEN [raised |-> "", text |-> encoded, log |-> entries]
    ELSE LET l == log_to_file(<<"Toon encoding failed: ", "Exception",
                                ", falling back to JSON">>, answer, entries)
         IN  IF l.raised # "" THEN [raised |-> l.raised, text |-> <<>>, log |-> l.log]
             ELSE [raised |-> "", text |-> JsonDumps(d), log |-> l.log]

\* the message main logs after a compression
CompressedMessage(stats) ==
    <<"Compressed ">> \o IntToStr(stats.compressed_blocks) \o <<" JSON blocks, saved ">>
        \o IntToStr(stats.total_tokens_saved) \o <<" tokens">>

\* a call of log_to_file in the try block of main, then print(out) if there is
\* something to print, then sys.exit(0)
LogAndExit(message, out, answer, entries) ==
    LET l == log_to_file(message, answer, entries)
    IN  IF l.raised # "" THEN [raised |-> l.raised, status |-> -1, stdout |-> <<>>, log |-> l.log]
        ELSE [raised |-> "", status |-> 0, stdout |-> out, log |-> l.log]

\* the try block of main after c = compress_prompt(prompt_text)
MainCompressed(c, answer, entries) ==
    IF c.was_compressed
    THEN LogAndExit(CompressedMessage(c.stats), c.text \o <<"\n">>, answer, entries)
    ELSE LogAndExit(<<"No compressible JSON found">>, <<>>, answer, entries)

\* the try block of main
MainTry(input, prompt_text, answer, entries) ==
    IF input = "malformed"
    THEN [raised |-> "JSONDecodeError", status |-> -1, stdout |-> <<>>, log |-> entries]
    ELSE IF input = "no prompt" \/ prompt_text = <<>>
    THEN LogAndExit(<<"No prompt found in input">>, <<>>, answer, entries)
    ELSE MainCompressed(compress_prompt(prompt_text, DefaultMinItems), answer, entries)

\* the end of main after its try block ended as t: the except clause logs the
\* exception and exits with 0
MainExcept(t, answer) ==
    LET l == log_to_file(<<"Error: ", t.raised>>, answer, t.log)
    IN  IF t.raised = "" THEN [status |-> t.status, stdout |-> t.stdout, log |-> t.log]
        ELSE IF l.raised # "" THEN [status |-> 1, stdout |-> <<>>, log |-> l.log]
        ELSE [status |-> 0, stdout |-> <<>>, log |-> l.log]

\* main(): the exit status of the process, what it printed on its standard output
\* and the log file after it; an exception that leaves main ends the process with
\* status 1
main(input, prompt_text, answer, entries) ==
    MainExcept(MainTry(input, prompt_text, answer, entries), answer)

(***************************************************************************)
(* The values the encoder and the classifier are called with.              *)
(***************************************************************************)
\* the characters of the strings held by cells: a letter, a digit, the
\* decimal point, the three characters the encoder quotes for, and the quote
CellAlphabet == {"a", "1", ".", ",", " ", "\n", "\""}

ScalarCells == {VNull, VBool(TRUE), VInt(1), VInt(-7), VFloat(15, 1), VFloat(2, 0)}

\* a list holding a string of apostrophes and a double quote, whose repr escapes
\* every apostrophe
ApostropheCell == VList(<<VStr(Rep("'", Apostrophes) \o <<"\"">>)>>)

NestedCells ==
    {VList(<<VInt(1), VInt(2)>>), VDict(<< <<"a">> >>, <<VStr(<<"a">>)>>), ApostropheCell}

StrCells(k) == {VStr(w) : w \in TextsUpTo(CellAlphabet, k)}

\* the cells of tables of three cells and more
CoreCells == {VInt(1), VStr(<<>>), VStr(<<"a", ",">>)}

\* the cells of a table of k cells: the more cells, the fewer values of each
CellsFor(k) ==
    IF k = 1 THEN ScalarCells \cup NestedCells \cup StrCells(MaxStrLen)
    ELSE IF k = 2 THEN ScalarCells \cup StrCells(MaxStrLen - 1)
    ELSE CoreCells

KeyLists == {<<>>, << <<"a">> >>, << <<"a">>, <<"b">> >>}

Reverse(q) == [i \in 1..Len(q) |-> q[Len(q) + 1 - i]]

\* the key orders a later row of a table may have: that of the first or its reverse
RowOrders(keys) == {keys, Reverse(keys)}

\* the mappings over the keys ks (in this order) with values in cells
DictsOver(ks, cells) == {VDict(ks, vs) : vs \in [1..Len(ks) -> cells]}

\* the lists of r mappings over the same key set, the first with the keys ks
TablesOver(r, ks, cells) ==
    {VList(items) :
        items \in {f \in [1..r -> UNION {DictsOver(o, cells) : o \in RowOrders(ks)}] :
                        f[1].keys = ks}}

UniformArrays ==
    UNION {TablesOver(r, ks, CellsFor(r * Len(ks))) : r \in 1..MaxRows, ks \in KeyLists}

SomeDicts == DictsOver(<< <<"a">> >>, CoreCells) \cup DictsOver(<< <<"b">> >>, {VInt(1)})
                \cup DictsOver(<< <<"a">>, <<"b">> >>, {VInt(1)})

\* lists that are not uniform arrays: empty, of other things than mappings, mixed,
\* and of mappings with different key sets
OtherLists ==
    {VList(<<>>)}
    \cup {VList(<<c>>) : c \in ScalarCells \cup CoreCells \cup {VList(<<>>)}}
    \cup {VList(<<x, y>>) : x \in SomeDicts, y \in {VInt(1), VStr(<<"a">>), VList(<<VInt(1)>>)}}
    \cup {VList(<<y, x>>) : x \in SomeDicts, y \in {VInt(1)}}
    \cup {VList(<<x, y>>) : x \in DictsOver(<< <<"a">> >>, CoreCells),
                            y \in SomeDicts \ DictsOver(<< <<"a">> >>, CoreCells)}

\* the lists a wrapper mapping holds
WrappedLists == OtherLists \cup TablesOver(1, << <<"a">> >>, CoreCells)
                    \cup TablesOver(MaxRows, << <<"a">>, <<"b">> >>, {VInt(1), VStr(<<"a", ",">>)})

Mappings ==
    UNION {DictsOver(ks, CellsFor(Len(ks))) : ks \in KeyLists}
    \cup {VDict(<< <<"k">> >>, <<l>>) : l \in WrappedLists}
    \cup {VDict(<< <<"k">>, <<"a">> >>, <<l, VInt(1)>>) : l \in {VList(<<>>), VList(<<VInt(1)>>)}}

Scalars == ScalarCells \cup StrCells(1)

JsonValues == UniformArrays \cup OtherLists \cup Mappings \cup Scalars

\* the names the encoder is called with: the default and another
Names == {<<"d", "a", "t", "a">>, <<"t">>}

(***************************************************************************)
(* The texts the decoder is called with, besides the encoder's output.     *)
(***************************************************************************)
\* header lines that hold a Field Set: of one field and of two
ToonHeaders ==
    {<<"t", "[", "1", "]", "{", "a", "}", ":">>,
     <<"t", "[", "2", "]", "{", "a", ",", "b", "}", ":">>}

\* the characters of the lines after the header
BodyAlphabet == {"1", "0", ".", "-", "a", ",", "\"", " ", "\n"}

ToonTexts == {h \o <<"\n">> \o b : h \in ToonHeaders, b \in TextsUpTo(BodyAlphabet, MaxBodyLen)}

\* the characters of the texts without a header
JsonAlphabet == {"[", "]", "{", "}", "1", ",", "\"", "\n"}

JsonTexts == TextsUpTo(JsonAlphabet, MaxJsonLen)

RawTexts == ToonTexts \cup JsonTexts

(***************************************************************************)
(* The prompts the hook is called with.                                    *)
(***************************************************************************)
BlockKeys == {<< <<"a">> >>, << <<"a">>, <<"b">> >>}

\* the array of r mappings over the keys ks, row i holding i in every field
TableOf(r, ks) == VList([i \in 1..r |-> VDict(ks, [j \in 1..Len(ks) |-> VInt(i)])])

\* texts that are not the JSON text of a list of mappings: a match of the array
\* pattern that is not JSON, an array with a "]" inside, a list of numbers, and a
\* mapping of three keys
OddBlocks ==
    {<<"[", "{", "a", "}", "]">>,
     JsonDumpsCompact(VList(<<VDict(<< <<"a">> >>, <<VList(<<VInt(1)>>)>>)>>)),
     JsonDumpsCompact(VList(<<VInt(1), VInt(2)>>)),
     JsonDumpsCompact(VDict(<< <<"a">>, <<"b">>, <<"c">> >>, <<VInt(1), VInt(1), VInt(1)>>))}

\* the JSON texts a prompt holds: tables on one line, one with a 2-space indent
BlockTexts ==
    {JsonDumpsCompact(TableOf(r, ks)) : r \in 1..MaxBlockRows, ks \in BlockKeys}
    \cup {JsonDumps(TableOf(DefaultMinItems, << <<"a">>, <<"b">> >>))}
    \cup OddBlocks

Greeting == <<"H", "i", " ">>

Between == <<" ", "o", "r", " ">>

\* prompts without JSON, with one block and with two
Prompts ==
    {<<>>, Greeting}
    \cup {pre \o b \o post : pre \in {<<>>, Greeting}, b \in BlockTexts, post \in {<<>>, <<"?">>}}
    \cup {Greeting \o b1 \o Between \o b2 \o post :
            b1 \in BlockTexts, b2 \in BlockTexts, post \in {<<>>, <<"?">>}}

\* the values json_to_toon_official is called with
OfficialValues == {TableOf(r, ks) : r \in 1..MaxRows, ks \in BlockKeys} \cup {VList(<<>>), VInt(1)}

(***************************************************************************)
(* The state: the arguments and the results of the calls made so far.      *)
(*   pc        what has been called                                        *)
(*   data      the value given to is_uniform_array and json_to_toon        *)
(*   name      the name given to json_to_toon                              *)
(*   text      the Toon text: json_to_toon's result, or a text given       *)
(*   uniform   is_uniform_array's result                                   *)
(*   result    toon_to_json's outcome                                      *)
(*   response  parse_from_toon's response                                  *)
(*   min_items the min_items given to should_compress or compress_prompt   *)
(*   verdict   should_compress's result                                    *)
(*   report    the response of compress_to_toon or of should_use_toon      *)
(*   prompt    the prompt given to compress_prompt, or held by stdin       *)
(*   outcome   compress_prompt's result                                    *)
(*   stdin     what the hook finds on its standard input                   *)
(*   disk      how the file system answers the writing of a log entry      *)
(*   toon_python  how the toon-python library answers                      *)
(*   log       the entries appended to the log file                        *)
(*   stdout    what the hook has printed on its standard output            *)
(*   status    the exit status of the hook, -1 while it has none           *)
(*   official  the outcome of json_to_toon_official                        *)
(***************************************************************************)
VARIABLES pc, data, name, text, uniform, result, response,
          min_items, verdict, report,
          prompt, outcome, stdin, disk, toon_python, log, stdout, status, official

estVars == <<min_items, verdict, report>>

hookVars == <<prompt, outcome, stdin, disk, toon_python, log, stdout, status, official>>

vars == <<pc, data, name, text, uniform, result, response, estVars, hookVars>>

\* the outcome of a call that has not been made
NoResult == [raised |-> "", v |-> VNull]

NoResponse == [json |-> VNull, success |-> FALSE, error |-> ""]

NoReport == [toon |-> <<>>]

NoOutcome == [text |-> <<>>, was_compressed |-> FALSE, stats |-> <<>>]

NoOfficial == [raised |-> "", text |-> <<>>]

\* no estimate has been asked for
NoEstimate ==
    /\ min_items = DefaultMinItems
    /\ verdict = FALSE
    /\ report = NoReport

\* the hook has not run
NoHook ==
    /\ prompt = <<>>
    /\ outcome = NoOutcome
    /\ stdin = "closed"
    /\ disk = "ok"
    /\ toon_python = "encodes"
    /\ log = <<>>
    /\ stdout = <<>>
    /\ status = -1
    /\ official = NoOfficial

\* a value to classify and encode
InitJson ==
    /\ pc = "ready"
    /\ data \in JsonValues
    /\ name = <<>>
    /\ text = <<>>
    /\ uniform = FALSE
    /\ result = NoResult
    /\ response = NoResponse
    /\ NoEstimate
    /\ NoHook

\* a text to decode
InitText ==
    /\ pc = "given"
    /\ data = VNull
    /\ name = <<>>
    /\ text \in RawTexts
    /\ uniform = FALSE
    /\ result = NoResult
    /\ response = NoResponse
    /\ NoEstimate
    /\ NoHook

\* a prompt on the standard input of the hook (or none, or no JSON at all), and
\* a file system that takes the log entries or fails
InitPrompt ==
    /\ pc = "hook"
    /\ data = VNull
    /\ name = <<>>
    /\ text = <<>>
    /\ uniform = FALSE
    /\ result = NoResult
    /\ response = NoResponse
    /\ NoEstimate
    /\ \/ stdin = "prompt" /\ prompt \in Prompts
       \/ stdin \in {"malformed", "no prompt"} /\ prompt = <<>>
    /\ outcome = NoOutcome
    /\ disk \in Disks
    /\ toon_python = "encodes"
    /\ log = <<>>
    /\ stdout = <<>>
    /\ status = -1
    /\ official = NoOfficial

\* a value for json_to_toon_official, a library and a file system
InitOfficial ==
    /\ pc = "library"
    /\ data \in OfficialValues
    /\ name = <<>>
    /\ text = <<>>
    /\ uniform = FALSE
    /\ result = NoResult
    /\ response = NoResponse
    /\ NoEstimate
    /\ prompt = <<>>
    /\ stdin = "closed"
    /\ outcome = NoOutcome
    /\ disk \in Disks
    /\ toon_python \in ToonPythons
    /\ log = <<>>
    /\ stdout = <<>>
    /\ status = -1
    /\ official = NoOfficial

InitHook == InitPrompt \/ InitOfficial

Init == InitJson \/ InitText \/ InitHook

\* a call of is_uniform_array(data)
Classify ==
    /\ pc = "ready"
    /\ uniform' = is_uniform_array(data)
    /\ pc' = "classified"
    /\ UNCHANGED <<data, name, text, result, response, estVars, hookVars>>

\* a call of json_to_toon(data, name)
Encode ==
    /\ pc = "ready"
    /\ \E nm \in Names :
        /\ name' = nm
        /\ text' = json_to_toon(data, nm)
    /\ pc' = "encoded"
    /\ UNCHANGED <<data, uniform, result, response, estVars, hookVars>>

\* a call of toon_to_json(text), on the encoder's output or on a text given
Decode ==
    /\ pc \in {"encoded", "given"}
    /\ result' = toon_to_json(text)
    /\ pc' = IF pc = "encoded" THEN "roundtrip" ELSE "decoded"
    /\ UNCHANGED <<data, name, text, uniform, response, estVars, hookVars>>

\* a call of the tool parse_from_toon(text)
Parse ==
    /\ pc = "given"
    /\ response' = parse_from_toon(text)
    /\ pc' = "parsed"
    /\ UNCHANGED <<data, name, text, uniform, result, estVars, hookVars>>

MinItems == 0..MaxMinItems

\* a call of should_compress(data, k)
ShouldCompress ==
    /\ pc = "ready"
    /\ \E k \in MinItems :
        /\ min_items' = k
        /\ verdict' = should_compress(data, k)
    /\ pc' = "judged"
    /\ UNCHANGED <<data, name, text, uniform, result, response, report, hookVars>>

\* a call of the tool compress_to_toon(data, name)
CompressToToon ==
    /\ pc = "ready"
    /\ \E nm \in Names :
        /\ name' = nm
        /\ report' = compress_to_toon(data, nm)
    /\ pc' = "compressed"
    /\ UNCHANGED <<data, text, uniform, result, response, min_items, verdict, hookVars>>

\* a call of the tool should_use_toon(data)
ShouldUseToon ==
    /\ pc = "ready"
    /\ report' = should_use_toon(data)
    /\ pc' = "advised"
    /\ UNCHANGED <<data, name, text, uniform, result, response, min_items, verdict, hookVars>>

\* a call of compress_prompt(prompt, min_items=k)
CompressPrompt ==
    /\ pc = "hook"
    /\ stdin = "prompt"
    /\ \E k \in MinItems :
        /\ min_items' = k
        /\ outcome' = compress_prompt(prompt, k)
    /\ pc' = "prompted"
    /\ UNCHANGED <<data, name, text, uniform, result, response, verdict, report,
                   prompt, stdin, disk, toon_python, log, stdout, status, official>>

\* a run of the hook: main()
Main ==
    /\ pc = "hook"
    /\ LET m == main(stdin, prompt, disk, log)
       IN  /\ status' = m.status
           /\ stdout' = m.stdout
           /\ log' = m.log
    /\ pc' = "exited"
    /\ UNCHANGED <<data, name, text, uniform, result, response, estVars,
                   prompt, outcome, stdin, disk, toon_python, official>>

\* the texts encode of toon-python may return for a value: the library is not of
\* this repository, the model takes the table of json_to_toon and the empty text
EncodeAnswers(d, nm) == {json_to_toon(d, nm), <<>>}

\* a call of json_to_toon_official(data, name)
EncodeOfficial ==
    /\ pc = "library"
    /\ \E nm \in Names : \E encoded \in EncodeAnswers(data, nm) :
        LET o == json_to_toon_official(data, nm, toon_python, encoded, disk, log)
        IN  /\ name' = nm
            /\ official' = [raised |-> o.raised, text |-> o.text]
            /\ log' = o.log
    /\ pc' = "official"
    /\ UNCHANGED <<data, text, uniform, result, response, estVars,
                   prompt, outcome, stdin, disk, toon_python, stdout, status>>

Next ==
    \/ Classify \/ Encode \/ Decode \/ Parse
    \/ ShouldCompress \/ CompressToToon \/ ShouldUseToon
    \/ CompressPrompt \/ Main \/ EncodeOfficial

Spec == Init /\ [][Next]_vars

\* the encoder's side alone: values classified, encoded and decoded again
NextEnc == Classify \/ Encode \/ Decode

SpecEnc == InitJson /\ [][NextEnc]_vars

\* the decoder's side alone: texts decoded and parsed
NextDec == Decode \/ Parse

SpecDec == InitText /\ [][NextDec]_vars

\* the estimator's side alone: values judged by the hook and by the tools
NextEst == ShouldCompress \/ CompressToToon \/ ShouldUseToon

SpecEst == InitJson /\ [][NextEst]_vars

\* the hook's side alone: prompts compressed, the hook run, the library called
NextHook == CompressPrompt \/ Main \/ EncodeOfficial

SpecHook == InitHook /\ [][NextHook]_vars

(***************************************************************************)
(* The vocabulary of the properties, stated apart from the operators       *)
(* above.                                                                  *)
(***************************************************************************)
\* every key of x is a key of y
KeysWithin(x, y) == \A i \in 1..Len(x.keys) : \E j \in 1..Len(y.keys) : y.keys[j] = x.keys[i]

\* a non-empty list of mappings whose key sets all equal the first's
UniformShape(v) ==
    /\ v.t = "list"
    /\ Len(v.items) >= 1
    /\ \A i \in 1..Len(v.items) : v.items[i].t = "dict"
    /\ \A i \in 1..Len(v.items) : KeysWithin(v.items[i], v.items[1]) /\ KeysWithin(v.items[1], v.items[i])

\* a mapping of one key whose value is a list
WrapperShape(v) == v.t = "dict" /\ Len(v.keys) = 1 /\ v.items[1].t = "list"

\* the value a mapping holds under a key it has
ValueOf(item, k) == item.items[CHOOSE j \in 1..Len(item.keys) : item.keys[j] = k]

Quoted(s) == <<"\"">> \o s \o <<"\"">>

HasDelimiter(s) == \E i \in 1..Len(s) : s[i] \in {",", " ", "\n"}

\* name[N]{k1,...,km}:
HeaderLine(nm, n, keys) ==
    nm \o <<"[">> \o IntToStr(n) \o <<"]">> \o <<"{">> \o Join(keys, <<",">>) \o <<"}">> \o <<":">>

\* the table of an array whose cell (i, j) is rendered by cell(i, j):
\* the header, then a newline before each row, each row a space and its cells
TableText(nm, array, cell(_, _)) ==
    LET keys == array.items[1].keys
        row(i) == <<"\n", " ">> \o Join([j \in 1..Len(keys) |-> cell(i, j)], <<",">>)
    IN  HeaderLine(nm, Len(array.items), keys)
            \o Join([i \in 1..Len(array.items) |-> row(i)], <<>>)

\* the text form of the value that row i of the array holds for the j-th field
FieldText(array, i, j) == PyStr(ValueOf(array.items[i], array.items[1].keys[j]))

\* C2: is_uniform_array(value) is true exactly when value is a non-empty list, every
\* element is a mapping, and every element's key set equals the first element's,
\* whatever the order of the keys; so it is false for the empty list, for what is
\* not a list and for a list holding anything but mappings.
C2_UniformExactly == pc = "classified" => (uniform <=> UniformShape(data))

\* C2 witness: a list classified uniform whose second mapping has the keys of the
\* first in another order.
C2_Witness ==
    /\ pc = "classified"
    /\ uniform
    /\ Len(data.items) >= 2
    /\ Len(data.items[1].keys) = 2
    /\ data.items[2].keys # data.items[1].keys

\* C3: for a uniform array of N mappings, json_to_toon(array, name) is the header
\* name[N]{k1,...,km}: with the first element's keys in its order, followed by
\* exactly N rows in input order, each a newline, one space and the element's
\* values taken in Field Set order, comma-joined, each value in its text form,
\* bare or wrapped in quotes.
C3_HeaderAndRows ==
    (pc = "encoded" /\ UniformShape(data)) =>
        LET n == Len(data.items)
            m == Len(data.items[1].keys)
        IN  \E quoted \in [(1..n) \X (1..m) -> BOOLEAN] :
                LET cell(i, j) == IF quoted[<<i, j>>] THEN Quoted(FieldText(data, i, j))
                                  ELSE FieldText(data, i, j)
                IN  text = TableText(name, data, cell)

\* C3 witness: an encoded table of two rows and two fields whose second row has
\* its keys in the other order and two different values.
C3_Witness ==
    /\ pc = "encoded"
    /\ UniformShape(data)
    /\ Len(data.items) = 2
    /\ Len(data.items[1].keys) = 2
    /\ data.items[2].keys # data.items[1].keys
    /\ data.items[2].items[1] # data.items[2].items[2]

\* the part of an encoded text after its header line
AfterHeader(nm, n, keys) == SubSeq(text, Len(HeaderLine(nm, n, keys)) + 1, Len(text))

\* C5: on the uniform-array path a value is wrapped in double quotes if and only if
\* its text form holds a comma, a space or a newline; on the one-row path of a
\* mapping no value is quoted, whatever it holds.
C5_QuotedIffDelimiter ==
    /\ (pc = "encoded" /\ UniformShape(data)) =>
            LET cell(i, j) == IF HasDelimiter(FieldText(data, i, j))
                              THEN Quoted(FieldText(data, i, j))
                              ELSE FieldText(data, i, j)
            IN  text = TableText(name, data, cell)
    /\ (pc = "encoded" /\ data.t = "dict" /\ ~WrapperShape(data)) =>
            AfterHeader(name, 1, data.keys)
                = <<"\n", " ">> \o Join([j \in 1..Len(data.items) |-> PyStr(data.items[j])], <<",">>)

\* C5 witness: an encoded table with a value that holds a space and no comma, which
\* is quoted, beside a value with no delimiter, which is bare.
C5_Witness ==
    /\ pc = "encoded"
    /\ UniformShape(data)
    /\ Len(data.items[1].keys) = 2
    /\ data.items[1].items[1] = VStr(<<" ">>)
    /\ data.items[1].items[2] = VStr(<<"a">>)
    /\ Len(data.items) = 1
    /\ AfterHeader(name, 1, data.items[1].keys) = <<"\n", " ", "\"", " ", "\"", ",", "a">>

\* C6: json_to_toon of a mapping with exactly one key whose value is a list is
\* json_to_toon of that list under that key as the name, the caller's name being
\* dropped; of any other mapping it is the header name[1]{k1,k2,...}: with the
\* mapping's keys in their order, followed by one row of the values in that order.
C6_MappingDispatch ==
    (pc = "encoded" /\ data.t = "dict") =>
        IF Len(data.keys) = 1 /\ data.items[1].t = "list"
        THEN text = json_to_toon(data.items[1], data.keys[1])
        ELSE text = HeaderLine(name, 1, data.keys) \o <<"\n", " ">>
                        \o Join([j \in 1..Len(data.items) |-> PyStr(data.items[j])], <<",">>)

\* C6 witness: an encoded wrapper of a uniform array, whose header bears the key
\* and not the name it was called with.
C6_Witness ==
    /\ pc = "encoded"
    /\ WrapperShape(data)
    /\ UniformShape(data.items[1])
    /\ name # data.keys[1]
    /\ SubSeq(text, 1, 2) = data.keys[1] \o <<"[">>

\* the values the encoder has no table for
FallbackShape(v) == v.t # "dict" /\ ~UniformShape(v)

\* C7: for a non-uniform list, an empty list, a list holding something that is no
\* mapping, and any value that is neither a mapping nor a list, json_to_toon
\* returns the JSON serialization of the value with an indent of 2, whole.
C7_EncoderFallback ==
    (pc = "encoded" /\ FallbackShape(data)) => text = JsonDumps(data)

\* C7 witness: an encoded list of two mappings with different key sets.
C7_Witness ==
    /\ pc = "encoded"
    /\ data.t = "list"
    /\ Len(data.items) = 2
    /\ data.items[1].t = "dict"
    /\ data.items[2].t = "dict"
    /\ ~KeysWithin(data.items[2], data.items[1])
    /\ text = JsonDumps(data)

\* the values json_to_toon makes a table of, and the keys of the table
MappingTable(v) == v.t = "dict" /\ ~WrapperShape(v)

TableShape(v) == MappingTable(v) \/ UniformShape(v) \/ (WrapperShape(v) /\ UniformShape(v.items[1]))

TableKeys(v) ==
    IF MappingTable(v) THEN v.keys
    ELSE IF WrapperShape(v) THEN v.items[1].items[1].keys
    ELSE v.items[1].keys

\* C4: in every Toon Document json_to_toon produces, from a mapping as from a
\* uniform array, every row has exactly as many comma-separated values, counted
\* by the decoder's quote-aware split, as the Field Set has fields.
C4_FieldSetInvariant ==
    (pc = "encoded" /\ TableShape(data)) =>
        LET lines == Split(text, "\n")
        IN  \A k \in 2..Len(lines) : Len(SplitRow(Strip(lines[k]))) = Len(TableKeys(data))

\* Python's == on the numbers: bool, int and float compare by value
IsNumber(v) == v.t \in {"bool", "int", "float"}

\* Python's == on JSON values; mappings compare whatever the order of their keys
RECURSIVE PyEq(_, _)
PyEq(x, y) ==
    IF IsNumber(x) /\ IsNumber(y) THEN x.n * Pow10(y.d) = y.n * Pow10(x.d)
    ELSE IF x.t # y.t THEN FALSE
    ELSE IF x.t = "list"
    THEN Len(x.items) = Len(y.items) /\ \A i \in 1..Len(x.items) : PyEq(x.items[i], y.items[i])
    ELSE IF x.t = "dict"
    THEN /\ KeysWithin(x, y)
         /\ KeysWithin(y, x)
         /\ \A i \in 1..Len(x.keys) : PyEq(x.items[i], ValueOf(y, x.keys[i]))
    ELSE x = y

\* a string that looks like a number becomes the number the decoder makes of it
Normalized(v) ==
    IF v.t = "str" /\ Coerce(Strip(v.s)).t # "str" THEN Coerce(Strip(v.s)) ELSE v

\* C1: for every uniform array, toon_to_json(json_to_toon(array)) equals the array
\* once its numeric-looking strings are made numbers: as many rows, the same keys,
\* and every value equal up to the decoder's numeric coercion.  Stated for the
\* arrays whose mappings have at least one key.
C1_RoundTrip ==
    (pc = "roundtrip" /\ UniformShape(data) /\ Len(data.items[1].keys) >= 1) =>
        /\ result.raised = ""
        /\ result.v.t = "list"
        /\ Len(result.v.items) = Len(data.items)
        /\ \A i \in 1..Len(data.items) :
                /\ result.v.items[i].keys = data.items[1].keys
                /\ \A j \in 1..Len(data.items[1].keys) :
                        PyEq(result.v.items[i].items[j],
                             Normalized(ValueOf(data.items[i], data.items[1].keys[j])))

\* the first line of a text as the decoder sees it
FirstLine(t) == Split(Strip(t), "\n")[1]

\* the first line holds both braces
HasFieldSet(t) == Contains(FirstLine(t), "{") /\ Contains(FirstLine(t), "}")

\* the value {"error": "Invalid Toon format"}
IsInvalidToon(v) ==
    /\ v.t = "dict"
    /\ v.keys = << <<"e", "r", "r", "o", "r">> >>
    /\ v.items = <<VStr(<<"I", "n", "v", "a", "l", "i", "d", " ", "T", "o", "o", "n", " ",
                          "f", "o", "r", "m", "a", "t">>)>>

RECURSIVE OutsideCommas(_, _, _)
OutsideCommas(line, i, inside) ==
    IF i > Len(line) THEN 0
    ELSE IF line[i] = "\"" THEN OutsideCommas(line, i + 1, ~inside)
    ELSE (IF line[i] = "," /\ ~inside THEN 1 ELSE 0) + OutsideCommas(line, i + 1, inside)

\* the lines after the header that are not blank and have one value per field
RowsWithAllFields(t) ==
    LET lines == Split(Strip(t), "\n")
        fields == HeaderFields(lines[1])
    IN  {k \in 2..Len(lines) :
            /\ Strip(lines[k]) # <<>>
            /\ OutsideCommas(Strip(lines[k]), 1, FALSE) + 1 = Len(fields)}

\* C9: a non-blank line after the header gives a mapping if and only if its field
\* count, one more than the number of its commas outside double-quote pairs,
\* equals the number of fields of the header; the other lines are dropped.  Stated
\* for the texts under a well-formed header, as the number of mappings decoded.
C9_RowAcceptance ==
    (pc = "decoded" /\ FirstLine(text) \in ToonHeaders) =>
        /\ result.v.t = "list"
        /\ Len(result.v.items) = Cardinality(RowsWithAllFields(text))

\* the values of the rows the decoder accepts, in order
AcceptedRows(t) ==
    LET lines == Split(Strip(t), "\n")
        fields == HeaderFields(lines[1])
        Accepted(line) == Strip(line) # <<>> /\ Len(SplitRow(Strip(line))) = Len(fields)
        Values(line) == SplitRow(Strip(line))
        kept == SelectSeq(Tail(lines), Accepted)
    IN  [k \in 1..Len(kept) |-> Values(kept[k])]

\* what the decoder is to make of one trimmed value
Parsed(value) ==
    IF Contains(value, ".")
    THEN IF PyFloat(value).ok THEN PyFloat(value).v ELSE VStr(value)
    ELSE IF PyInt(value).ok THEN PyInt(value).v ELSE VStr(value)

\* C10: every field of every accepted row is the floating-point parse of its trimmed
\* value when that holds a decimal point and its integer parse otherwise, and the
\* string itself when the parse fails; so a value of digits alone is an integer.
C10_NumericCoercion ==
    (pc = "decoded" /\ HasFieldSet(text)) =>
        LET rows == AcceptedRows(text)
            fields == HeaderFields(FirstLine(text))
        IN  /\ Len(result.v.items) = Len(rows)
            /\ \A k \in 1..Len(rows) : \A j \in 1..Len(fields) :
                    LET value == rows[k][j]
                        out == ValueOf(result.v.items[k], fields[j])
                    IN  /\ out = Parsed(value)
                        /\ (value # <<>> /\ AllDigits(value)) =>
                                (out.t = "int" /\ out.n = DigitsVal(value))

\* C10 witness: a row holding 01 has been decoded to the integer 1, and a row
\* holding a decimal point to a float.
C10_Witness ==
    /\ pc = "decoded"
    /\ HasFieldSet(text)
    /\ \E k \in 1..Len(AcceptedRows(text)) :
            /\ AcceptedRows(text)[k][1] \in {<<"0", "1">>, <<"1", ".">>}
            /\ result.v.items[k].items[1] \in {VInt(1), VFloat(1, 0)}

(***************************************************************************)
(* The properties of the savings estimator.                                *)
(***************************************************************************)
\* the token estimate of a text: a quarter of its length, rounded down
Tokens(t) == Len(t) \div 4

\* the token estimate of the value as JSON with a 2-space indent
JsonTokens(v) == Tokens(JsonDumps(v))

\* the token estimate of the value encoded under the default name
ToonTokens(v) == Tokens(json_to_toon(v, DefaultName))

\* C11: should_compress(value, min_items) is false for every list of fewer than
\* min_items elements, for every list that is not a uniform array and for every
\* value that is not a list, a mapping that wraps a uniform array included.
C11_NeverCompressed ==
    (pc = "judged" /\ (data.t # "list" \/ Len(data.items) < min_items \/ ~UniformShape(data)))
        => verdict = FALSE

\* C11 witness: a uniform array one element short of min_items, which a smaller
\* min_items lets through, has been judged and refused.
C11_Witness ==
    /\ pc = "judged"
    /\ UniformShape(data)
    /\ Len(data.items) = min_items - 1
    /\ should_compress(data, 0)
    /\ verdict = FALSE

\* C12: for every uniform array of at least min_items elements, should_compress is
\* true exactly when the token estimate of the Toon form is at least 30% under
\* that of the JSON form with a 2-space indent:
\* 100 * (json_tokens - toon_tokens) >= 30 * json_tokens.
C12_ThirtyPercentOfIndented ==
    (pc = "judged" /\ UniformShape(data) /\ Len(data.items) >= min_items) =>
        (verdict <=> 100 * (JsonTokens(data) - ToonTokens(data)) >= 30 * JsonTokens(data))

\* every value of every mapping of the array is null, a boolean, a number or a string
ScalarValues(array) ==
    \A i \in 1..Len(array.items) : \A j \in 1..Len(array.items[i].items) :
        array.items[i].items[j].t \in {"null", "bool", "int", "float", "str"}

\* the percentage is the saving of b tokens over a, to the nearest hundredth
NearestHundredth(hundredths, a, b) ==
    LET twice == 2 * (hundredths * a - 10000 * (a - b))
    IN  0 - a <= twice /\ twice <= a

\* what compress_to_toon reports of its two texts
ReportOf(v, r) ==
    /\ r.original_tokens = JsonTokens(v)
    /\ r.toon_tokens = Tokens(r.toon)
    /\ r.toon = json_to_toon(v, name)

\* C13 as stated: for every non-empty uniform array encoded under the default name
\* the token estimate of the Toon text is strictly under that of the 2-space-indented
\* JSON text: compress_to_toon reports toon_tokens < original_tokens, a positive
\* savings_percent and is_uniform = true.
C13_ToonIsSmaller ==
    (pc = "compressed" /\ name = DefaultName /\ UniformShape(data)) =>
        /\ ReportOf(data, report)
        /\ report.toon_tokens < report.original_tokens
        /\ report.savings_percent > 0
        /\ report.is_uniform = TRUE

\* C13 as amended: the same for the uniform arrays whose mappings have at least one
\* key and hold scalars only; savings_percent is the saving rounded to two decimals,
\* so it is never negative.
C13_ToonIsSmallerForScalars ==
    (/\ pc = "compressed"
     /\ name = DefaultName
     /\ UniformShape(data)
     /\ Len(data.items[1].keys) >= 1
     /\ ScalarValues(data)) =>
        /\ ReportOf(data, report)
        /\ report.toon_tokens < report.original_tokens
        /\ NearestHundredth(report.savings_percent, report.original_tokens, report.toon_tokens)
        /\ report.savings_percent >= 0
        /\ report.is_uniform = TRUE

\* C13 witness: a table of two rows and two scalar fields has been compressed under
\* the default name, with a saving.
C13_Witness ==
    /\ pc = "compressed"
    /\ name = DefaultName
    /\ UniformShape(data)
    /\ Len(data.items) = 2
    /\ Len(data.items[1].keys) = 2
    /\ ScalarValues(data)
    /\ report.savings_percent > 0

\* C14: should_use_toon decides in this order: what is not a list is refused as not
\* an array, the empty list as empty, a list that is not uniform as of inconsistent
\* fields, the three with is_uniform false and estimated_savings_percent 0; for a
\* uniform array is_uniform is true, array_size is the number of elements, and
\* should_use is true exactly when the saving of Toon over the 2-space-indented
\* JSON exceeds 10%.
C14_AdviceOrder ==
    pc = "advised" =>
        IF data.t # "list" THEN report = Against(NotAnArray)
        ELSE IF Len(data.items) = 0 THEN report = Against(ArrayIsEmpty)
        ELSE IF ~UniformShape(data) THEN report = Against(InconsistentFields)
        ELSE /\ report.is_uniform = TRUE
             /\ report.array_size = Len(data.items)
             /\ report.should_use
                    <=> 100 * (JsonTokens(data) - ToonTokens(data)) > 10 * JsonTokens(data)

\* C14 witness: a uniform array of two elements has been recommended, and its
\* saving is reported.
C14_Witness ==
    /\ pc = "advised"
    /\ UniformShape(data)
    /\ Len(data.items) = 2
    /\ report.should_use = TRUE
    /\ report.array_size = 2
    /\ report.estimated_savings_percent > 1000

\* C18: for every list that is not a uniform array (empty, of mappings with
\* different key sets, or holding something else than mappings) the first line of
\* json_to_toon(list) does not hold both braces, so toon_to_json takes its JSON
\* branch and returns the list itself: no number coerced, no element dropped.
C18_FallbackInverted ==
    (pc = "roundtrip" /\ data.t = "list" /\ ~UniformShape(data)) =>
        /\ ~HasFieldSet(text)
        /\ result = Returned(data)

\* C18 witness: a list of two mappings with different keys, one of them holding a
\* string, has been encoded and decoded back to itself.
C18_Witness ==
    /\ pc = "roundtrip"
    /\ data.t = "list"
    /\ Len(data.items) = 2
    /\ \A i \in 1..2 : data.items[i].t = "dict"
    /\ \E i \in 1..2 : \E j \in 1..Len(data.items[i].items) : data.items[i].items[j].t = "str"
    /\ ~UniformShape(data)
    /\ text = JsonDumps(data)
    /\ result.v = data

(***************************************************************************)
(* The properties of the prompt hook.                                      *)
(***************************************************************************)
\* the prompt with the blocks numbered in chosen replaced by the text compress_prompt
\* builds of their Toon form, and everything else as it was and in order: the text
\* from the offset at on, block k next
RECURSIVE Spliced(_, _, _, _, _)
Spliced(p, blocks, k, at, chosen) ==
    IF k > Len(blocks) THEN SubSeq(p, at + 1, Len(p))
    ELSE SubSeq(p, at + 1, blocks[k].start)
            \o (IF k \in chosen THEN CompressedText(blocks[k].data)
                ELSE SubSeq(p, blocks[k].start + 1, blocks[k].end))
            \o Spliced(p, blocks, k + 1, blocks[k].end, chosen)

\* the blocks should_compress accepts
Accepted(blocks) ==
    {k \in 1..Len(blocks) : should_compress(blocks[k].data, DefaultMinItems)}

\* C15: compress_prompt(prompt_text, min_items=k) replaces a detected JSON array by
\* its Toon form only if the array has at least k elements, for every k passed: the
\* text returned is the prompt with some of the arrays of at least k elements
\* replaced, and nothing else.
C15_MinItemsHonoured ==
    pc = "prompted" =>
        LET blocks == detect_json_in_text(prompt)
            LongEnough == {k \in 1..Len(blocks) :
                            blocks[k].data.t = "list" /\ Len(blocks[k].data.items) >= min_items}
        IN  \E chosen \in SUBSET LongEnough : outcome.text = Spliced(prompt, blocks, 1, 0, chosen)

\* what the hook prints when every log entry is written
PrintedWhenLogged == main(stdin, prompt, "ok", <<>>).stdout

\* C16: a failure to write a log entry (creating the directory, opening or writing
\* the file) never leaves log_to_file and never changes the result of what logged:
\* json_to_toon_official still returns the pretty-printed JSON after a failed
\* encode, and main ends with exit status 0 on every path, having printed what it
\* prints when the entry is written.
C16_LogFailureSwallowed ==
    /\ pc = "official" => official.raised = ""
    /\ (pc = "official" /\ toon_python = "raises") => official.text = JsonDumps(data)
    /\ pc = "exited" => (status = 0 /\ stdout = PrintedWhenLogged)

\* C16 witness: the hook has compressed a prompt and printed it with exit status 0
\* although the log entry could not be written.
C16_Witness ==
    /\ pc = "exited"
    /\ disk = "write fails"
    /\ log = <<>>
    /\ status = 0
    /\ stdout # <<>>
    /\ stdout # prompt \o <<"\n">>

\* C17 as stated: compress_prompt replaces exactly the character ranges of the
\* detected blocks for which should_compress is true and leaves every other
\* character unchanged and in order; compressed_blocks is the number of replaced
\* blocks, was_compressed is true iff compressed_blocks >= 1, and when no block
\* qualifies the text returned is the prompt.
C17_InPlace ==
    pc = "prompted" =>
        LET blocks == detect_json_in_text(prompt)
            replaced == Accepted(blocks)
        IN  /\ outcome.text = Spliced(prompt, blocks, 1, 0, replaced)
            /\ "compressed_blocks" \in DOMAIN outcome.stats
            /\ outcome.stats.compressed_blocks = Cardinality(replaced)
            /\ outcome.was_compressed <=> outcome.stats.compressed_blocks >= 1
            /\ replaced = {} => outcome.text = prompt

\* C17 as amended: the same, with compressed_blocks reported only when a block was
\* detected; when none was, the summary is empty and was_compressed is false.
C17_InPlaceWhenDetected ==
    pc = "prompted" =>
        LET blocks == detect_json_in_text(prompt)
            replaced == Accepted(blocks)
        IN  /\ outcome.text = Spliced(prompt, blocks, 1, 0, replaced)
            /\ outcome.was_compressed <=> Cardinality(replaced) >= 1
            /\ replaced = {} => outcome.text = prompt
            /\ IF blocks = <<>> THEN DOMAIN outcome.stats = {}
               ELSE /\ "compressed_blocks" \in DOMAIN outcome.stats
                    /\ outcome.stats.compressed_blocks = Cardinality(replaced)

\* C17 witness: of the two blocks of a prompt both have been replaced, and the
\* text between them and after them is still there.
C17_Witness ==
    /\ pc = "prompted"
    /\ Len(detect_json_in_text(prompt)) = 2
    /\ outcome.was_compressed
    /\ outcome.stats.compressed_blocks = 2
    /\ SubSeq(outcome.text, 1, Len(Greeting)) = Greeting
    /\ outcome.text[Len(outcome.text)] = "?"
=============================================================================
